---- MODULE Spec2Model ----
(***************************************************************************)
(* Model of the cleaning-duty roster program (src/main.py).                *)
(*                                                                         *)
(* The persisted roster store is database.json, the participant manifest   *)
(* is input.json.  run_selection is modelled step by step: the load and    *)
(* synchronisation phase, the prompt for the number of weeks, one step per *)
(* iteration of the weekly loop, and the final update with its save.       *)
(* add_employee and remove_employee are the administrative operations.     *)
(***************************************************************************)
EXTENDS Integers, Sequences, FiniteSets, TLC

\* ---------------------------------------------------------------- bounds
MaxManifest == 2
MaxWeeks == 3
MaxDuty == 4
MaxCount == 5
MaxHistory == 3

\* The exponent of the weight formula.
P == 50

\* The identities that occur in the store, the manifest and the commands.
Ids == {1, 2}
\* The names typed on the command line, and those written in the manifest.
Names == {"a", "b"}
InNames == {"a"}

\* ----------------------------------------------------------------- state
VARIABLES
    dbFmt,               \* database.json: "missing", "ok", "unreadable", "no_employees"
    dbFile,              \* database.json: the list under "employees"
    argv,                \* main: the command line of the latest invocation
    pc,                  \* position of the process
    input_data,          \* run_selection: input_data["employees"]
    db,                  \* run_selection: db["employees"] in memory
    typed,               \* run_selection: the latest line typed at the prompt, if any
    weeks,               \* run_selection: number of weeks entered
    week,                \* run_selection: loop variable
    eligible,            \* run_selection: eligible list of the latest iteration
    baseline,            \* run_selection: baseline of the latest selecting iteration
    weights,             \* run_selection: weights of the latest selecting iteration
    selected_this_month, \* run_selection: ids selected in this run
    weekly_results,      \* run_selection: result records
    dbFile0,             \* history: dbFile when the latest command started
    lastRuns             \* history: who was selected in the latest completed runs

vars == <<dbFmt, dbFile, argv, pc, input_data, db, typed, weeks, week, eligible,
          baseline, weights, selected_this_month, weekly_results, dbFile0, lastRuns>>

\* --------------------------------------------------------------- helpers
Range(s) == {s[i] : i \in 1..Len(s)}

IdsOf(s) == {s[i].id : i \in 1..Len(s)}

RECURSIVE SumDuty(_)
SumDuty(s) == IF s = <<>> THEN 0 ELSE Head(s).duty_count + SumDuty(Tail(s))

\* A manifest entry is a dict; a key may be missing.
WellFormedEntries == {[id |-> i, name |-> n] : i \in Ids, n \in InNames}

MalformedEntries == {[id |-> i] : i \in Ids} \cup {[name |-> n] : n \in InNames}

\* The manifests tried: up to MaxManifest entries, the last of which may lack
\* a key.
Manifests ==
    {<<>>} \cup
    UNION {{Append(p, e) : p \in [1..n -> WellFormedEntries],
                           e \in WellFormedEntries \cup MalformedEntries} :
           n \in 0..(MaxManifest - 1)}

\* What load_json(INPUT_FILE) can give: None, a dict without "employees",
\* or a dict with a list under "employees".
InputFmts == {"ok", "unreadable", "no_employees"}

\* What the operator can type at the prompt.
WeekInputs ==
    {[isInt |-> FALSE, val |-> 0]} \cup {[isInt |-> TRUE, val |-> v] : v \in (-1)..MaxWeeks}

\* ------------------------------------------------------------ operations
\* add_employee on a readable store: the list it leaves in database.json.
add_employee(file, new_employee) ==
    IF \E i \in 1..Len(file) : file[i].id = new_employee.id
    THEN file
    ELSE Append(file, [id |-> new_employee.id, name |-> new_employee.name,
                       duty_count |-> 0, consecutive |-> 0])

\* Variant of remove_employee that also drops the entries after the match.
remove_employee_truncate(file, employee_id) ==
    SelectSeq(file, LAMBDA emp : emp.id < employee_id)

\* remove_employee on a readable store: the filtered list.
remove_employee(file, employee_id) ==
    SelectSeq(file, LAMBDA emp : emp.id # employee_id)

\* Variant of SyncFrom that trusts db_employee_ids and appends without the
\* duplicate test of add_employee.
RECURSIVE SyncFrom_snapshot_only(_, _, _, _)
SyncFrom_snapshot_only(file, ids, inp, i) ==
    IF i > Len(inp) THEN [file |-> file, ok |-> TRUE]
    ELSE IF "id" \notin DOMAIN inp[i] THEN [file |-> file, ok |-> FALSE]
    ELSE IF inp[i].id \in ids THEN SyncFrom_snapshot_only(file, ids, inp, i + 1)
    ELSE IF "name" \notin DOMAIN inp[i] THEN [file |-> file, ok |-> FALSE]
    ELSE SyncFrom_snapshot_only(
             Append(file, [id |-> inp[i].id, name |-> inp[i].name,
                           duty_count |-> 0, consecutive |-> 0]),
             ids, inp, i + 1)

\* The synchronisation loop of run_selection from entry i on.  ids is the
\* set db_employee_ids computed once before the loop.  A missing key raises
\* KeyError, which nothing catches: the loop stops where it is.
RECURSIVE SyncFrom(_, _, _, _)
SyncFrom(file, ids, inp, i) ==
    IF i > Len(inp) THEN [file |-> file, ok |-> TRUE]
    ELSE IF "id" \notin DOMAIN inp[i] THEN [file |-> file, ok |-> FALSE]
    ELSE IF inp[i].id \in ids THEN SyncFrom(file, ids, inp, i + 1)
    ELSE IF "name" \notin DOMAIN inp[i] THEN [file |-> file, ok |-> FALSE]
    ELSE SyncFrom(add_employee(file, [id |-> inp[i].id, name |-> inp[i].name]),
                  ids, inp, i + 1)

\* Variants of Eligible with one of its three tests wrong.
Eligible_reselect(employees, inp, selected) ==
    SelectSeq(employees,
              LAMBDA emp : /\ \E k \in 1..Len(inp) : emp.id = inp[k].id
                           /\ ~(emp.consecutive >= 2))

Eligible_cap_off_by_one(employees, inp, selected) ==
    SelectSeq(employees,
              LAMBDA emp : /\ \E k \in 1..Len(inp) : emp.id = inp[k].id
                           /\ emp.id \notin selected
                           /\ ~(emp.consecutive > 2))

Eligible_whole_roster(employees, inp, selected) ==
    SelectSeq(employees,
              LAMBDA emp : /\ emp.id \notin selected
                           /\ ~(emp.consecutive >= 2))

Eligible_no_cap(employees, inp, selected) ==
    SelectSeq(employees,
              LAMBDA emp : /\ \E k \in 1..Len(inp) : emp.id = inp[k].id
                           /\ emp.id \notin selected)

\* The eligible list of one week.
Eligible(employees, inp, selected) ==
    SelectSeq(employees,
              LAMBDA emp : /\ \E k \in 1..Len(inp) : emp.id = inp[k].id
                           /\ emp.id \notin selected
                           /\ ~(emp.consecutive >= 2))

\* Variants of FinalUpdate: the count is not incremented; the streak of a
\* person who was not selected is kept.
FinalUpdate_no_count(employees, selected) ==
    [i \in 1..Len(employees) |->
        IF employees[i].id \in selected
        THEN [employees[i] EXCEPT !.consecutive = @ + 1]
        ELSE [employees[i] EXCEPT !.consecutive = 0]]

FinalUpdate_no_reset(employees, selected) ==
    [i \in 1..Len(employees) |->
        IF employees[i].id \in selected
        THEN [employees[i] EXCEPT !.duty_count = @ + 1, !.consecutive = @ + 1]
        ELSE employees[i]]

\* Further variants: the streak of a selected person is set to 1; the streak
\* of a person who was not selected goes down by one.
FinalUpdate_streak_flag(employees, selected) ==
    [i \in 1..Len(employees) |->
        IF employees[i].id \in selected
        THEN [employees[i] EXCEPT !.duty_count = @ + 1, !.consecutive = 1]
        ELSE [employees[i] EXCEPT !.consecutive = 0]]

FinalUpdate_streak_decays(employees, selected) ==
    [i \in 1..Len(employees) |->
        IF employees[i].id \in selected
        THEN [employees[i] EXCEPT !.duty_count = @ + 1, !.consecutive = @ + 1]
        ELSE [employees[i] EXCEPT !.consecutive = IF @ > 0 THEN @ - 1 ELSE 0]]

\* The final update of the roster.
FinalUpdate(employees, selected) ==
    [i \in 1..Len(employees) |->
        IF employees[i].id \in selected
        THEN [employees[i] EXCEPT !.duty_count = @ + 1, !.consecutive = @ + 1]
        ELSE [employees[i] EXCEPT !.consecutive = 0]]

\* ---------------------------------------------------------------- weights
\* Python computes the average, the baseline and the effective counts as
\* numbers with a fractional part; here they are fractions num / den with
\* den > 0, compared by cross-multiplication.
RatLess(x, y) == x.num * y.den < y.num * x.den

RatEq(x, y) == x.num * y.den = y.num * x.den

\* baseline has this value until a week has computed one.
NoBaseline == [num |-> 0, den |-> 1]

\* Variant of Baseline that keeps an average of 0.
Baseline_no_floor(el) == [num |-> SumDuty(el), den |-> Len(el)]

\* avg = total / len(eligible); baseline = avg if avg > 0 else 1.
Baseline(el) ==
    LET total == SumDuty(el)
        avg == [num |-> total, den |-> Len(el)]
    IN  IF avg.num > 0 THEN avg ELSE [num |-> 1, den |-> 1]

\* effective = duty if duty > baseline else baseline.
Effective(emp, b) ==
    LET duty == [num |-> emp.duty_count, den |-> 1]
    IN  IF RatLess(b, duty) THEN duty ELSE b

\* Variant of Weight with the power in the numerator.
Weight_inverse(emp, b) ==
    LET e == Effective(emp, b)
    IN  [base |-> [num |-> e.den, den |-> e.num + e.den], exp |-> P]

\* weight = 1 / ((effective + 1) ** 50), kept as the fraction effective + 1
\* and the exponent; WeightValue below works the power out.
Weight(emp, b) ==
    LET e == Effective(emp, b)
    IN  [base |-> [num |-> e.num + e.den, den |-> e.den], exp |-> P]

\* Natural numbers of any size, as Python's int has them: the digits in base
\* 10000, the lowest first, without leading zeros; <<>> is 0.  An
\* intermediate result is bound by a one-element set, which TLC evaluates
\* before it goes on.
RECURSIVE BigOfNat(_)
BigOfNat(n) == IF n = 0 THEN <<>> ELSE <<n % 10000>> \o BigOfNat(n \div 10000)

Digit(a, i) == IF i <= Len(a) THEN a[i] ELSE 0

\* The digits of a * m + carry from digit i on.
RECURSIVE MulCarry(_, _, _, _)
MulCarry(a, i, m, carry) ==
    IF i > Len(a)
    THEN BigOfNat(carry)
    ELSE CHOOSE r \in {<<t % 10000>> \o MulCarry(a, i + 1, m, t \div 10000) :
                         t \in {a[i] * m + carry}} : TRUE

MulSmall(a, m) == IF m = 0 THEN <<>> ELSE MulCarry(a, 1, m, 0)

\* acc * m ** k.
RECURSIVE BigPowFrom(_, _, _)
BigPowFrom(m, k, acc) ==
    IF k = 0
    THEN acc
    ELSE CHOOSE r \in {BigPowFrom(m, k - 1, v) : v \in {MulSmall(acc, m)}} : TRUE

BigPow(m, k) == BigPowFrom(m, k, <<1>>)

\* The digits of a + b + carry from digit i on.
RECURSIVE BigAdd(_, _, _, _)
BigAdd(a, b, i, carry) ==
    IF i > Len(a) /\ i > Len(b)
    THEN BigOfNat(carry)
    ELSE CHOOSE r \in {<<t % 10000>> \o BigAdd(a, b, i + 1, t \div 10000) :
                         t \in {Digit(a, i) + Digit(b, i) + carry}} : TRUE

BigShift(a) == IF a = <<>> THEN <<>> ELSE <<0>> \o a

\* a * b, from the highest digit of b down; acc is the product so far.
RECURSIVE BigMulFrom(_, _, _, _)
BigMulFrom(a, b, k, acc) ==
    IF k = 0
    THEN acc
    ELSE CHOOSE r \in {BigMulFrom(a, b, k - 1, v) :
                         v \in {BigAdd(MulSmall(a, b[k]), BigShift(acc), 1, 0)}} : TRUE

BigMul(a, b) == BigMulFrom(a, b, Len(b), <<>>)

\* a < b, decided at the highest digit among the first k that differs.
RECURSIVE LessFrom(_, _, _)
LessFrom(a, b, k) ==
    IF k = 0
    THEN FALSE
    ELSE IF a[k] # b[k] THEN a[k] < b[k] ELSE LessFrom(a, b, k - 1)

BigLess(a, b) == IF Len(a) # Len(b) THEN Len(a) < Len(b) ELSE LessFrom(a, b, Len(a))

\* The number a weight stands for: 1 / base ** exp, as an exact fraction.
WeightValue(w) ==
    [num |-> BigPow(w.base.den, w.exp), den |-> BigPow(w.base.num, w.exp)]

ValueLess(x, y) == BigLess(BigMul(x.num, y.den), BigMul(y.num, x.den))

Weights(el) == [i \in 1..Len(el) |-> Weight(el[i], Baseline(el))]

\* random.choices returns a member whose weight is not zero.
Choices(w) == {c \in 1..Len(w) : w[c].base.num > 0 /\ w[c].base.den > 0}

\* --------------------------------------------------------------- initial
Init ==
    /\ dbFmt \in {"missing", "ok", "unreadable", "no_employees"}
    /\ dbFile = <<>>
    /\ argv = [cmd |-> "none"]
    /\ pc = "idle"
    /\ input_data = <<>>
    /\ db = <<>>
    /\ typed = <<>>
    /\ weeks = 0
    /\ week = 0
    /\ eligible = <<>>
    /\ baseline = NoBaseline
    /\ weights = <<>>
    /\ selected_this_month = {}
    /\ weekly_results = <<>>
    /\ dbFile0 = <<>>
    /\ lastRuns = <<>>

ResetRun ==
    /\ pc' = "idle"
    /\ input_data' = <<>>
    /\ db' = <<>>
    /\ typed' = <<>>
    /\ weeks' = 0
    /\ week' = 0
    /\ eligible' = <<>>
    /\ baseline' = NoBaseline
    /\ weights' = <<>>
    /\ selected_this_month' = {}
    /\ weekly_results' = <<>>

\* --------------------------------------------------------------- actions
\* python main.py add <id> <name>, the name taken from names.
AddEmployeeWith(names) ==
    /\ pc = "idle"
    /\ \E i \in Ids, n \in names :
          /\ argv' = [cmd |-> "add", id |-> i, name |-> n]
          /\ dbFile' = IF dbFmt = "ok" THEN add_employee(dbFile, [id |-> i, name |-> n])
                       ELSE dbFile
    /\ dbFile0' = dbFile
    /\ ResetRun
    /\ UNCHANGED <<dbFmt, lastRuns>>

AddEmployee == AddEmployeeWith(Names)

\* The history of a person ends when the person leaves the store.
Forget(history, pid) == [k \in 1..Len(history) |-> history[k] \ {pid}]

\* python main.py remove <id>; track says whether the history is kept.
RemoveEmployeeWith(track) ==
    /\ pc = "idle"
    /\ \E i \in Ids :
          /\ argv' = [cmd |-> "remove", id |-> i]
          /\ dbFile' = IF dbFmt = "ok" THEN remove_employee(dbFile, i) ELSE dbFile
          /\ lastRuns' = IF track /\ dbFmt = "ok" THEN Forget(lastRuns, i) ELSE lastRuns
    /\ dbFile0' = dbFile
    /\ ResetRun
    /\ UNCHANGED dbFmt

RemoveEmployee == RemoveEmployeeWith(FALSE)

\* run_selection up to the reload of the database: file creation, the two
\* format checks, the synchronisation of the manifest into the store.
\* fmt and inp are what load_json(INPUT_FILE) gives.
RunStart(fmt, inp) ==
    LET fmt1 == IF dbFmt = "missing" THEN "ok" ELSE dbFmt
        sync == SyncFrom(dbFile, IdsOf(dbFile), inp, 1)
    IN  /\ argv' = [cmd |-> "run"]
        /\ dbFmt' = fmt1
        /\ dbFile0' = dbFile
        /\ UNCHANGED <<typed, weeks, week, eligible, baseline, weights,
                       selected_this_month, weekly_results, lastRuns>>
        /\ IF fmt # "ok" \/ fmt1 # "ok"
           THEN /\ pc' = "aborted"
                /\ UNCHANGED <<input_data, db, dbFile>>
           ELSE /\ input_data' = inp
                /\ dbFile' = sync.file
                /\ IF sync.ok
                   THEN pc' = "prompt" /\ db' = sync.file
                   ELSE pc' = "crashed" /\ UNCHANGED db

StartRun ==
    /\ pc = "idle"
    /\ \A i \in 1..Len(dbFile) : dbFile[i].duty_count < MaxDuty
    /\ \/ \E inp \in Manifests : RunStart("ok", inp)
       \/ \E fmt \in InputFmts \ {"ok"} : RunStart(fmt, <<>>)

\* Variant of Prompt that takes 0 for a number of weeks.
Prompt_accepts_zero ==
    /\ pc = "prompt"
    /\ \E inp \in WeekInputs :
        /\ typed' = <<inp>>
        /\ IF inp.isInt /\ ~(inp.val < 0)
           THEN /\ weeks' = inp.val
                /\ week' = 1
                /\ pc' = IF 1 <= inp.val THEN "round" ELSE "finalize"
           ELSE UNCHANGED <<weeks, week, pc>>
    /\ UNCHANGED <<dbFmt, dbFile, argv, input_data, db, eligible, baseline, weights,
                   selected_this_month, weekly_results, dbFile0, lastRuns>>

\* One pass of the prompt loop.  The weekly loop is entered with week = 1;
\* range(1, weeks + 1) is not empty, weeks being at least 1.
Prompt ==
    /\ pc = "prompt"
    /\ \E inp \in WeekInputs :
        /\ typed' = <<inp>>
        /\ IF inp.isInt /\ ~(inp.val < 1)
           THEN /\ weeks' = inp.val
                /\ week' = 1
                /\ pc' = IF 1 <= inp.val THEN "round" ELSE "finalize"
           ELSE UNCHANGED <<weeks, week, pc>>
    /\ UNCHANGED <<dbFmt, dbFile, argv, input_data, db, eligible, baseline, weights,
                   selected_this_month, weekly_results, dbFile0, lastRuns>>

\* The parts of one iteration of the weekly loop.
ResultRecord(emp) ==
    [week |-> week, id |-> emp.id, name |-> emp.name,
     duty_count_before |-> emp.duty_count]

Skipping == UNCHANGED <<baseline, weights, selected_this_month, weekly_results>>

Selecting(el) ==
    /\ baseline' = Baseline(el)
    /\ weights' = Weights(el)
    /\ \E c \in Choices(Weights(el)) :
          /\ selected_this_month' = selected_this_month \cup {el[c].id}
          /\ weekly_results' = Append(weekly_results, ResultRecord(el[c]))

Advance ==
    /\ week' = week + 1
    /\ pc' = IF week = weeks THEN "finalize" ELSE "round"

\* Variant of Round that leaves the weekly loop when nobody is eligible.
Round_break_on_empty ==
    /\ pc = "round"
    /\ LET el == Eligible(db, input_data, selected_this_month)
       IN  /\ eligible' = el
           /\ IF el = <<>>
              THEN Skipping /\ week' = week + 1 /\ pc' = "finalize"
              ELSE Selecting(el) /\ Advance
    /\ UNCHANGED <<dbFmt, dbFile, argv, input_data, db, typed, weeks, dbFile0, lastRuns>>

\* Variant of Round that updates the roster in the week of the selection.
Round_commit_each_week ==
    /\ pc = "round"
    /\ LET el == Eligible(db, input_data, selected_this_month)
       IN  /\ eligible' = el
           /\ IF el = <<>>
              THEN Skipping /\ UNCHANGED <<db, dbFile>>
              ELSE /\ Selecting(el)
                   /\ db' = [i \in 1..Len(db) |->
                               IF db[i].id \in selected_this_month'
                                  /\ db[i].id \notin selected_this_month
                               THEN [db[i] EXCEPT !.duty_count = @ + 1]
                               ELSE db[i]]
                   /\ dbFile' = db'
    /\ Advance
    /\ UNCHANGED <<dbFmt, argv, input_data, typed, weeks, dbFile0, lastRuns>>

\* Variant of Round in which the draw can fail and the week is passed over.
Round_may_skip ==
    /\ pc = "round"
    /\ LET el == Eligible(db, input_data, selected_this_month)
       IN  /\ eligible' = el
           /\ IF el = <<>> THEN Skipping ELSE (Selecting(el) \/ Skipping)
    /\ Advance
    /\ UNCHANGED <<dbFmt, dbFile, argv, input_data, db, typed, weeks, dbFile0, lastRuns>>

\* Variant of Round that does not add the chosen id to selected_this_month.
Round_forget_selected ==
    /\ pc = "round"
    /\ LET el == Eligible(db, input_data, selected_this_month)
       IN  /\ eligible' = el
           /\ IF el = <<>>
              THEN Skipping
              ELSE /\ baseline' = Baseline(el)
                   /\ weights' = Weights(el)
                   /\ \E c \in Choices(Weights(el)) :
                         weekly_results' = Append(weekly_results, ResultRecord(el[c]))
                   /\ UNCHANGED selected_this_month
    /\ Advance
    /\ UNCHANGED <<dbFmt, dbFile, argv, input_data, db, typed, weeks, dbFile0, lastRuns>>

\* Variant of Round that records the count the person will have after the run.
Round_records_after_count ==
    /\ pc = "round"
    /\ LET el == Eligible(db, input_data, selected_this_month)
       IN  /\ eligible' = el
           /\ IF el = <<>>
              THEN Skipping
              ELSE /\ baseline' = Baseline(el)
                   /\ weights' = Weights(el)
                   /\ \E c \in Choices(Weights(el)) :
                         /\ selected_this_month' = selected_this_month \cup {el[c].id}
                         /\ weekly_results' =
                              Append(weekly_results,
                                     [ResultRecord(el[c]) EXCEPT !.duty_count_before = @ + 1])
    /\ Advance
    /\ UNCHANGED <<dbFmt, dbFile, argv, input_data, db, typed, weeks, dbFile0, lastRuns>>

\* One iteration of the weekly loop.
Round ==
    /\ pc = "round"
    /\ LET el == Eligible(db, input_data, selected_this_month)
       IN  /\ eligible' = el
           /\ IF el = <<>> THEN Skipping ELSE Selecting(el)
    /\ Advance
    /\ UNCHANGED <<dbFmt, dbFile, argv, input_data, db, typed, weeks, dbFile0, lastRuns>>

\* The latest MaxHistory completed runs, the newest last.
Remember(history, selected) ==
    LET h == Append(history, selected)
    IN  IF Len(h) > MaxHistory THEN Tail(h) ELSE h

\* The final update and its save; track says whether the history is kept.
FinalizeWith(track) ==
    /\ pc = "finalize"
    /\ db' = FinalUpdate(db, selected_this_month)
    /\ dbFile' = db'
    /\ pc' = "done"
    /\ lastRuns' = IF track THEN Remember(lastRuns, selected_this_month) ELSE lastRuns
    /\ UNCHANGED <<dbFmt, argv, input_data, typed, weeks, week, eligible, baseline,
                   weights, selected_this_month, weekly_results, dbFile0>>

Finalize == FinalizeWith(FALSE)

\* The process ends; the next command starts from the files alone.
Exit ==
    /\ pc \in {"done", "aborted", "crashed"}
    /\ ResetRun
    /\ dbFile0' = <<>>
    /\ UNCHANGED <<dbFmt, dbFile, argv, lastRuns>>

Next ==
    \/ AddEmployee
    \/ RemoveEmployee
    \/ StartRun
    \/ Prompt
    \/ Round
    \/ Finalize
    \/ Exit

Spec == Init /\ [][Next]_vars

\* ------------------------------------------- runs over rosters with history
\* A run at the start of its weekly loop: three participants, all in the
\* manifest, with the duty counts earlier runs have left them; the third may
\* be at the cap.  The loop treats the participants alike, so the counts are
\* taken in rising order.
WeightIds == {1, 2, 3}

WeightRosters ==
    {<<[id |-> 1, name |-> "a", duty_count |-> c[1], consecutive |-> 0],
       [id |-> 2, name |-> "a", duty_count |-> c[2], consecutive |-> 0],
       [id |-> 3, name |-> "a", duty_count |-> c[3], consecutive |-> s]>> :
        c \in {d \in [WeightIds -> 0..MaxCount] : d[1] <= d[2] /\ d[2] <= d[3]},
        s \in {0, 2}}

InitW ==
    /\ dbFmt = "ok"
    /\ dbFile \in WeightRosters
    /\ dbFile0 = dbFile
    /\ db = dbFile
    /\ argv = [cmd |-> "run"]
    /\ input_data = [i \in 1..3 |-> [id |-> i, name |-> "a"]]
    /\ weeks \in 2..MaxWeeks
    /\ typed = <<[isInt |-> TRUE, val |-> weeks]>>
    /\ week = 1
    /\ pc = "round"
    /\ eligible = <<>>
    /\ baseline = NoBaseline
    /\ weights = <<>>
    /\ selected_this_month = {}
    /\ weekly_results = <<>>
    /\ lastRuns = <<>>

NextW ==
    \/ Round
    \/ Finalize

WeightSpec == InitW /\ [][NextW]_vars

\* ------------------------------------------------- commands with a history
\* The commands over a readable store and complete manifests, all persons
\* under one name, with lastRuns keeping the selections of the latest
\* completed runs.
AddEmployeeH == AddEmployeeWith(InNames)

RemoveEmployeeH == RemoveEmployeeWith(TRUE)

StartRunH ==
    /\ pc = "idle"
    /\ \A i \in 1..Len(dbFile) : dbFile[i].duty_count < MaxDuty
    /\ \E inp \in {m \in Manifests : Range(m) \subseteq WellFormedEntries} :
          RunStart("ok", inp)

FinalizeH == FinalizeWith(TRUE)

NextH ==
    \/ AddEmployeeH
    \/ RemoveEmployeeH
    \/ StartRunH
    \/ Prompt
    \/ Round
    \/ FinalizeH
    \/ Exit

HistSpec == Init /\ [][NextH]_vars

\* ================================================================ claims
\* Ids of the manifest entries that have an id.
ManifestIds(inp) == {inp[k].id : k \in {j \in 1..Len(inp) : "id" \in DOMAIN inp[j]}}

\* The statistics a person had when the run started: those of the store
\* before the run, zero for a participant the run added.
StartDuty(pid) ==
    IF pid \in IdsOf(dbFile0)
    THEN (CHOOSE e \in Range(dbFile0) : e.id = pid).duty_count
    ELSE 0

StartConsecutive(pid) ==
    IF pid \in IdsOf(dbFile0)
    THEN (CHOOSE e \in Range(dbFile0) : e.id = pid).consecutive
    ELSE 0

\* C1: after a completed run the sum of duty_count over the roster equals the
\* sum before the run (new participants counting as 0) plus the number of
\* non-skipped rounds, in memory and in the store.
C1_SumDutyCount ==
    pc = "done" =>
        /\ SumDuty(db) = SumDuty(dbFile0) + Len(weekly_results)
        /\ SumDuty(dbFile) = SumDuty(dbFile0) + Len(weekly_results)

\* A completed run of 3 rounds, one skipped, with a new participant and
\* earlier duties in the store.
C1_Witness ==
    /\ pc = "done"
    /\ weeks = 3
    /\ Len(weekly_results) = 2
    /\ Len(dbFile0) < Len(db)
    /\ SumDuty(dbFile0) > 0

\* C2: within a run nobody is selected twice: the ids in weekly_results are
\* pairwise distinct and are exactly selected_this_month.
C2_SelectedOnce ==
    /\ \A i, j \in 1..Len(weekly_results) :
          i # j => weekly_results[i].id # weekly_results[j].id
    /\ {weekly_results[i].id : i \in 1..Len(weekly_results)} = selected_this_month

\* Two rounds have selected and a further round is still to come.
C2_Witness ==
    /\ pc = "round"
    /\ Len(weekly_results) >= 2

\* C3: a person whose consecutive is 2 or more when the run starts is not
\* selected in any round of the run.
C3_CapExcludes ==
    \A i \in 1..Len(weekly_results) :
        StartConsecutive(weekly_results[i].id) < 2

\* A participant at the cap has a duty_count below that of every other
\* participant, another participant was selected, and the latest round found
\* nobody eligible rather than take the capped person.
C3_Witness ==
    /\ pc = "finalize"
    /\ eligible = <<>>
    /\ Len(weekly_results) >= 1
    /\ \E p \in Range(db) :
          /\ p.id \in ManifestIds(input_data)
          /\ StartConsecutive(p.id) >= 2
          /\ p.id \notin selected_this_month
          /\ \A q \in Range(db) :
                (q.id \in ManifestIds(input_data) /\ q.id # p.id)
                    => p.duty_count < q.duty_count

\* C4: in every round the eligible list holds exactly the roster persons who
\* are in the manifest, not yet selected in the run and below the cap; the
\* person a round selects is one of them, so a roster person in the manifest.
C4_EligibleExact ==
    [][pc = "round" =>
         /\ Range(eligible') =
              {e \in Range(db) : /\ e.id \in ManifestIds(input_data)
                                 /\ e.id \notin selected_this_month
                                 /\ e.consecutive < 2}
         /\ Len(eligible') = Cardinality(Range(eligible'))
         /\ selected_this_month' \ selected_this_month \subseteq IdsOf(eligible')
         /\ selected_this_month' \subseteq ManifestIds(input_data) \cap IdsOf(db)]_vars

\* A round selected somebody while the roster holds a person outside the
\* manifest who is below the cap and was not selected.
C4_Witness ==
    /\ pc \in {"round", "finalize"}
    /\ eligible # <<>>
    /\ weekly_results # <<>>
    /\ \E e \in Range(db) :
          /\ e.id \notin ManifestIds(input_data)
          /\ e.consecutive < 2
          /\ e.duty_count < weekly_results[Len(weekly_results)].duty_count_before

\* C5: the final update gives every roster person selected in the run one
\* more duty_count and one more consecutive, and every other roster person
\* consecutive 0 with duty_count unchanged; nothing else changes.
C5_FinalUpdate ==
    [][pc = "finalize" =>
         /\ Len(db') = Len(db)
         /\ \A i \in 1..Len(db) :
               /\ db'[i].id = db[i].id
               /\ db'[i].name = db[i].name
               /\ IF db[i].id \in selected_this_month
                  THEN /\ db'[i].duty_count = db[i].duty_count + 1
                       /\ db'[i].consecutive = db[i].consecutive + 1
                  ELSE /\ db'[i].duty_count = db[i].duty_count
                       /\ db'[i].consecutive = 0]_vars

\* A completed run that selected somebody, with a person outside the
\* manifest whose streak was reset.
C5_Witness ==
    /\ pc = "done"
    /\ selected_this_month # {}
    /\ \E e \in Range(db) :
          /\ e.id \notin ManifestIds(input_data)
          /\ StartConsecutive(e.id) > 0
          /\ e.consecutive = 0
    /\ \E e \in Range(db) : e.id \in selected_this_month /\ e.consecutive = 2

\* C6: from the prompt to the last round the roster in memory and the store
\* do not change; every round sees the statistics of the start of the run;
\* the final step applies all changes and saves them.
C6_DeferredCommit ==
    /\ [](pc \in {"prompt", "round", "finalize"} =>
            /\ db = dbFile
            /\ \A i \in 1..Len(db) :
                  /\ db[i].duty_count = StartDuty(db[i].id)
                  /\ db[i].consecutive = StartConsecutive(db[i].id)
            /\ \A i \in 1..Len(weekly_results) :
                  weekly_results[i].duty_count_before = StartDuty(weekly_results[i].id))
    /\ [][/\ pc \in {"prompt", "round"} => db' = db /\ dbFile' = dbFile
          /\ pc = "finalize" => pc' = "done" /\ dbFile' = db']_vars

\* The last round of a run has selected a second person; the store still
\* holds the statistics of the start of the run.
C6_Witness ==
    /\ pc = "finalize"
    /\ Len(weekly_results) >= 2
    /\ SumDuty(dbFile0) > 0
    /\ dbFile = db
\* C7: a run that stops on a malformed store or manifest leaves the list in
\* database.json as it was when the run started.
C7_AbortLeavesStore ==
    pc \in {"aborted", "crashed"} => dbFile = dbFile0

\* C8: a round with nobody eligible changes neither selected_this_month nor
\* weekly_results nor the roster, and the loop goes on: the next week is
\* attempted, the final update starts only after all weeks, and it saves;
\* the run is never stuck before it is done.
C8_SkipContinues ==
    /\ [](/\ pc = "round" => 1 <= week /\ week <= weeks /\ ENABLED Round
          /\ pc = "finalize" => week = weeks + 1 /\ ENABLED Finalize
          /\ pc = "done" => week = weeks + 1 /\ dbFile = db)
    /\ [][(/\ pc = "round"
           /\ ~ \E e \in Range(db) : /\ e.id \in ManifestIds(input_data)
                                     /\ e.id \notin selected_this_month
                                     /\ e.consecutive < 2)
          => /\ selected_this_month' = selected_this_month
             /\ weekly_results' = weekly_results
             /\ db' = db
             /\ dbFile' = dbFile
             /\ week' = week + 1
             /\ pc' = IF week < weeks THEN "round" ELSE "finalize"]_vars

\* Three rounds were requested, rounds 1 and 2 selected, round 3 found
\* nobody eligible, and the run completed and saved.
C8_Witness ==
    /\ pc = "done"
    /\ weeks = 3
    /\ Len(weekly_results) = 2
    /\ weekly_results[1].week = 1
    /\ weekly_results[2].week = 2
    /\ eligible = <<>>
    /\ dbFile = db

\* C9: the synchronisation at the start of a run keeps the entries of the
\* store as they are and appends, once each with zero statistics, manifest
\* identities that the store lacked; when it completes, all of them.
C9_SyncAddsOnce ==
    [][(pc = "idle" /\ pc' \in {"prompt", "crashed"}) =>
         LET old == Len(dbFile)
             new == (old + 1)..Len(dbFile')
         IN  /\ Len(dbFile') >= old
             /\ SubSeq(dbFile', 1, old) = dbFile
             /\ \A i \in new :
                   /\ dbFile'[i].duty_count = 0
                   /\ dbFile'[i].consecutive = 0
                   /\ dbFile'[i].id \notin IdsOf(dbFile)
                   /\ \E k \in 1..Len(input_data') :
                         /\ DOMAIN input_data'[k] = {"id", "name"}
                         /\ input_data'[k].id = dbFile'[i].id
                         /\ input_data'[k].name = dbFile'[i].name
             /\ \A i, j \in new : i # j => dbFile'[i].id # dbFile'[j].id
             /\ pc' = "prompt" =>
                   /\ IdsOf(dbFile') = IdsOf(dbFile) \cup ManifestIds(input_data')
                   /\ db' = dbFile']_vars

\* The manifest lists the same new identity twice and the store held a
\* person with earlier duties; the synchronisation completed.
C9_Witness ==
    /\ pc = "prompt"
    /\ Len(input_data) = 2
    /\ input_data[1].id = input_data[2].id
    /\ input_data[1].id \notin IdsOf(dbFile0)
    /\ SumDuty(dbFile0) > 0

\* C10: add of an identity the store holds leaves the store unchanged; add of
\* an identity the store lacks appends one entry with zero statistics.
C10_AddEmployee ==
    [][(pc = "idle" /\ pc' = "idle" /\ argv'.cmd = "add"
        /\ dbFmt \notin {"unreadable", "no_employees"}) =>
         IF argv'.id \in IdsOf(dbFile)
         THEN dbFile' = dbFile
         ELSE dbFile' = Append(dbFile, [id |-> argv'.id, name |-> argv'.name,
                                        duty_count |-> 0, consecutive |-> 0])]_vars

\* The same statement for a store file that exists and is readable.
C10_AddToReadableStore ==
    [][(pc = "idle" /\ pc' = "idle" /\ argv'.cmd = "add" /\ dbFmt = "ok") =>
         IF argv'.id \in IdsOf(dbFile)
         THEN dbFile' = dbFile
         ELSE dbFile' = Append(dbFile, [id |-> argv'.id, name |-> argv'.name,
                                        duty_count |-> 0, consecutive |-> 0])]_vars

\* The entries of a list other than those of one identity, in their order.
Others(file, pid) == {i \in 1..Len(file) : file[i].id # pid}

\* C11: remove of an identity the store lacks leaves the store unchanged;
\* remove of an identity the store holds deletes every entry of that identity
\* and keeps every other entry, with its statistics, in its place.
C11_RemoveEmployee ==
    [][(pc = "idle" /\ pc' = "idle" /\ argv'.cmd = "remove") =>
         IF argv'.id \notin IdsOf(dbFile)
         THEN dbFile' = dbFile
         ELSE /\ argv'.id \notin IdsOf(dbFile')
              /\ Len(dbFile') = Cardinality(Others(dbFile, argv'.id))
              /\ \A i \in Others(dbFile, argv'.id) :
                    dbFile'[Cardinality({j \in Others(dbFile, argv'.id) : j <= i})]
                      = dbFile[i]]_vars

\* A person was removed from a store that held somebody else with duties.
C11_Witness ==
    /\ pc = "idle"
    /\ argv.cmd = "remove"
    /\ argv.id \in IdsOf(dbFile0)
    /\ argv.id \notin IdsOf(dbFile)
    /\ \E e \in Range(dbFile) : e.duty_count > 0 /\ e.consecutive > 0

\* C12: a number of weeks that is not an integer or is below 1 is asked
\* again: while the prompt stands no round has run, nobody is selected and no
\* statistic has changed; the accepted N is at least 1 and the run makes
\* exactly N iterations of the weekly loop, numbered 1..N.
C12_RoundCount ==
    /\ [](pc = "prompt" =>
            /\ week = 0
            /\ selected_this_month = {}
            /\ weekly_results = <<>>
            /\ db = dbFile)
    /\ [][pc = "prompt" =>
            IF typed'[1].isInt /\ typed'[1].val >= 1
            THEN /\ weeks' = typed'[1].val
                 /\ week' = 1
                 /\ pc' = "round"
                 /\ UNCHANGED <<db, dbFile, selected_this_month, weekly_results>>
            ELSE /\ pc' = "prompt"
                 /\ UNCHANGED <<db, dbFile, weeks, week, selected_this_month,
                                weekly_results>>]_vars
    /\ [](pc = "round" => 1 <= week /\ week <= weeks)
    /\ [][pc = "round" => week' = week + 1]_vars
    /\ [](pc \in {"finalize", "done"} => weeks >= 1 /\ week = weeks + 1)

\* The operator typed 0 and is asked again, with somebody to select.
C12_Witness ==
    /\ pc = "prompt"
    /\ typed = <<[isInt |-> TRUE, val |-> 0]>>
    /\ Eligible(db, input_data, {}) # <<>>
    /\ SumDuty(dbFile) > 0

\* C13: of two eligible persons the one with the smaller duty_count has a
\* weight at least as large, and a strictly larger one unless the other's
\* duty_count is at most the baseline, in which case the weights are equal.
C13_WeightMonotone ==
    \E value \in {[i \in 1..Len(eligible) |-> WeightValue(weights[i])]} :
        \A i, j \in 1..Len(eligible) :
            eligible[i].duty_count < eligible[j].duty_count =>
                /\ ~ValueLess(value[i], value[j])
                /\ RatLess(baseline, [num |-> eligible[j].duty_count, den |-> 1])
                     <=> ValueLess(value[j], value[i])

\* A round weighed three persons: two below the baseline with different
\* counts, and one above it.
C13_Witness ==
    /\ Len(eligible) = 3
    /\ Len(weights) = 3
    /\ \E i, j, k \in 1..3 :
          /\ eligible[i].duty_count < eligible[j].duty_count
          /\ eligible[j].duty_count < eligible[k].duty_count
          /\ ~RatLess(baseline, [num |-> eligible[j].duty_count, den |-> 1])
          /\ RatLess(baseline, [num |-> eligible[k].duty_count, den |-> 1])

\* The persons a round can select: in the manifest, not yet selected in this
\* run, below the cap.
CanBeSelected ==
    {e \in Range(db) : /\ e.id \in ManifestIds(input_data)
                       /\ e.id \notin selected_this_month
                       /\ e.consecutive < 2}

\* C14: a round with exactly one eligible person selects that person.
C14_SoleEligible ==
    [][(pc = "round" /\ Cardinality(CanBeSelected) = 1) =>
         \E e \in CanBeSelected :
            /\ selected_this_month' = selected_this_month \cup {e.id}
            /\ Len(weekly_results') = Len(weekly_results) + 1
            /\ weekly_results'[Len(weekly_results')].id = e.id
            /\ weekly_results'[Len(weekly_results')].week = week]_vars

\* The latest round had one eligible person among a roster of two and
\* selected that person.
C14_Witness ==
    /\ pc \in {"round", "finalize"}
    /\ Len(eligible) = 1
    /\ Len(db) = 2
    /\ weekly_results # <<>>
    /\ weekly_results[Len(weekly_results)].week = week - 1
    /\ weekly_results[Len(weekly_results)].id = eligible[1].id

\* C15: in the store, and in the roster a run holds in memory, every person
\* has duty_count >= 0 and 0 <= consecutive <= 2.
C15_StoreRanges ==
    \A e \in Range(dbFile) \cup Range(db) :
        /\ e.duty_count >= 0
        /\ 0 <= e.consecutive
        /\ e.consecutive <= 2

\* Between commands the store holds a person at the cap and a person with
\* duties and no streak.
C15_Witness ==
    /\ pc = "idle"
    /\ \E e, f \in Range(dbFile) :
          /\ e.consecutive = 2
          /\ f.consecutive = 0
          /\ f.duty_count > 0

\* The sum of duty_count over a set of persons.
RECURSIVE DutyOver(_)
DutyOver(S) ==
    IF S = {}
    THEN 0
    ELSE LET e == CHOOSE x \in S : TRUE
         IN  e.duty_count + DutyOver(S \ {e})

AsRat(n) == [num |-> n, den |-> 1]

\* C16: a round with eligible persons sets the baseline to the average
\* duty_count of the persons eligible in that round, or to 1 when the average
\* is 0; the effective count of each, effective + 1 being the base of the
\* weight, is the larger of duty_count and baseline; persons with
\* duty_count <= baseline have equal weights.
C16_Baseline ==
    [][(pc = "round" /\ CanBeSelected # {}) =>
         /\ IF DutyOver(CanBeSelected) > 0
            THEN RatEq(baseline', [num |-> DutyOver(CanBeSelected),
                                   den |-> Cardinality(CanBeSelected)])
            ELSE RatEq(baseline', AsRat(1))
         /\ Range(eligible') = CanBeSelected
         /\ Len(weights') = Cardinality(CanBeSelected)
         /\ \A i \in 1..Len(weights') :
               LET eff == [num |-> weights'[i].base.num - weights'[i].base.den,
                           den |-> weights'[i].base.den]
                   duty == AsRat(eligible'[i].duty_count)
               IN  /\ weights'[i].exp = 50
                   /\ ~RatLess(eff, duty)
                   /\ ~RatLess(eff, baseline')
                   /\ RatEq(eff, duty) \/ RatEq(eff, baseline')
         /\ \E value \in {[i \in 1..Len(weights') |-> WeightValue(weights'[i])]} :
               \A i, j \in 1..Len(weights') :
                  (/\ ~RatLess(baseline', AsRat(eligible'[i].duty_count))
                   /\ ~RatLess(baseline', AsRat(eligible'[j].duty_count)))
                    => ~ValueLess(value[i], value[j])]_vars

\* The second round of a run weighed the two persons left, with counts 0 and
\* 5: the baseline is 5/2, the weights are 1 / (7/2) ** 50 and 1 / 6 ** 50.
C16_Witness ==
    /\ week = 3
    /\ Len(weekly_results) = 2
    /\ Len(eligible) = 2
    /\ eligible[1].duty_count = 0
    /\ eligible[2].duty_count = 5
    /\ RatEq(baseline, [num |-> 5, den |-> 2])
    /\ weights[1].base = [num |-> 7, den |-> 2]
    /\ weights[2].base = [num |-> 6, den |-> 1]
    /\ weekly_results[1].duty_count_before \notin {0, 5}

\* The duty_count the store holds for a person.
StoredDuty(pid) == (CHOOSE e \in Range(dbFile) : e.id = pid).duty_count

\* C17: a round with nobody eligible adds no record, any other round adds
\* one record that carries the round's index; the indices rise strictly; the
\* duty_count_before of a record is the count the person had when the run
\* started, which the store holds until the final update and which is one
\* less than the count after the run.
C17_RunResult ==
    /\ [][pc = "round" =>
            IF CanBeSelected = {}
            THEN weekly_results' = weekly_results
            ELSE /\ Len(weekly_results') = Len(weekly_results) + 1
                 /\ SubSeq(weekly_results', 1, Len(weekly_results)) = weekly_results
                 /\ weekly_results'[Len(weekly_results')].week = week]_vars
    /\ [](\A i, j \in 1..Len(weekly_results) :
            i < j => weekly_results[i].week < weekly_results[j].week)
    /\ [](\A i \in 1..Len(weekly_results) :
            /\ weekly_results[i].duty_count_before = StartDuty(weekly_results[i].id)
            /\ pc \in {"round", "finalize"} =>
                 StoredDuty(weekly_results[i].id) = weekly_results[i].duty_count_before
            /\ pc = "done" =>
                 StoredDuty(weekly_results[i].id) = weekly_results[i].duty_count_before + 1)

\* A completed run of three rounds: two records, one round skipped, one of
\* the selected persons with duties from earlier runs.
C17_Witness ==
    /\ pc = "done"
    /\ weeks = 3
    /\ Len(weekly_results) = 2
    /\ weekly_results[1].duty_count_before # weekly_results[2].duty_count_before
    /\ weekly_results[2].duty_count_before > 0

\* The persons eligible in the first round of the run: nobody is selected
\* yet.  The in-memory roster is the same until the final update.
EligibleInRoundOne ==
    {e \in Range(db) : e.id \in ManifestIds(input_data) /\ e.consecutive < 2}

Min(a, b) == IF a < b THEN a ELSE b

\* C20: a round that selects takes exactly the selected person out of the
\* eligible set and a skipped round leaves it empty, so a round after a
\* skipped one finds nobody; the run selects min(N, number of persons
\* eligible in round 1) persons.
C20_EligibleShrinks ==
    /\ [][pc = "round" =>
            IF CanBeSelected = {}
            THEN CanBeSelected' = {} /\ selected_this_month' = selected_this_month
            ELSE \E e \in CanBeSelected :
                    /\ CanBeSelected' = CanBeSelected \ {e}
                    /\ selected_this_month' = selected_this_month \cup {e.id}
                    /\ e.id \notin selected_this_month]_vars
    /\ [](pc = "round" /\ week > 1 /\ eligible = <<>> => CanBeSelected = {})
    /\ [](pc = "finalize" =>
            /\ Cardinality(selected_this_month)
                 = Min(weeks, Cardinality(EligibleInRoundOne))
            /\ Len(weekly_results) = Cardinality(selected_this_month))

\* Three rounds were asked for, two persons were eligible in the first; the
\* third round was skipped.
C20_Witness ==
    /\ pc = "finalize"
    /\ weeks = 3
    /\ Cardinality(EligibleInRoundOne) = 2
    /\ Cardinality(selected_this_month) = 2
    /\ eligible = <<>>

\* The number of latest completed runs, counted back from the last, that
\* selected a person without interruption.
RECURSIVE Streak(_, _)
Streak(history, pid) ==
    IF history = <<>> \/ pid \notin history[Len(history)]
    THEN 0
    ELSE 1 + Streak(SubSeq(history, 1, Len(history) - 1), pid)

\* C18: the consecutive value the store holds for a person is the number of
\* latest completed runs, counted back from the last, that selected the
\* person without interruption, the count starting again when the person is
\* removed.
C18_ConsecutiveIsStreak ==
    \A e \in Range(dbFile) : e.consecutive = Streak(lastRuns, e.id)

\* After three completed runs the store holds a person the last two runs
\* selected and a person only the first run selected.
C18_Witness ==
    /\ pc = "done"
    /\ Len(lastRuns) = 3
    /\ \E e, f \in Range(dbFile) :
          /\ e.id \notin lastRuns[1]
          /\ e.id \in lastRuns[2] \cap lastRuns[3]
          /\ e.consecutive = 2
          /\ f.id \in lastRuns[1]
          /\ f.id \notin lastRuns[2] \cup lastRuns[3]
          /\ f.consecutive = 0

\* The persons the latest two completed runs both selected.
TwiceInARow ==
    IF Len(lastRuns) < 2
    THEN {}
    ELSE lastRuns[Len(lastRuns)] \cap lastRuns[Len(lastRuns) - 1]

\* The persons selected in two runs in a row just before the latest
\* completed run.
TwiceBeforeLast ==
    IF Len(lastRuns) < 3
    THEN {}
    ELSE lastRuns[Len(lastRuns) - 1] \cap lastRuns[Len(lastRuns) - 2]

\* C19: no three completed runs in a row select the same person: a person
\* the latest two runs selected is not eligible in any round of the next run
\* and is not selected by it; after that run the person's consecutive is 0
\* and the person, when in the manifest, is eligible in the first round of
\* the run after it.
C19_NoThreeInARow ==
    /\ \A k \in 1..(Len(lastRuns) - 2) :
          lastRuns[k] \cap lastRuns[k + 1] \cap lastRuns[k + 2] = {}
    /\ pc \in {"round", "finalize"} =>
          /\ TwiceInARow \cap {e.id : e \in CanBeSelected} = {}
          /\ TwiceInARow \cap IdsOf(eligible) = {}
          /\ TwiceInARow \cap selected_this_month = {}
    /\ \A e \in Range(dbFile) : e.id \in TwiceBeforeLast => e.consecutive = 0
    /\ (pc = "round" /\ week = 1) =>
          \A pid \in TwiceBeforeLast \cap ManifestIds(input_data) :
             pid \in {e.id : e \in CanBeSelected}

\* A person selected by two runs in a row sat out the third and is selected
\* again in the first round of the fourth.
C19_Witness ==
    /\ Len(lastRuns) = 3
    /\ pc \in {"round", "finalize"}
    /\ week = 2
    /\ \E pid \in lastRuns[1] \cap lastRuns[2] :
          /\ pid \notin lastRuns[3]
          /\ lastRuns[3] # {}
          /\ pid \in selected_this_month

====
